---- MODULE Spec2Model ----
(***************************************************************************)
(* Model of the control-plane state exporter                               *)
(* (internal/sos/exporter/export.go): ControlPlaneStateExporter.Export,    *)
(* shouldExport, customResourceGVR, archive and fetchAllCRDs; and of the   *)
(* kubeconfig helpers (internal/kube/client.go):                           *)
(* BuildControlPlaneKubeconfig and ApplyControlPlaneKubeconfig.            *)
(*                                                                         *)
(* One run of Export is a sequential program; pc is its position.  The     *)
(* control plane, the REST mapper and the file system are its environment: *)
(* every call of a stage has a failing and a succeeding outcome.  The      *)
(* deferred fs.RemoveAll, whose error Export discards, removes the         *)
(* directory.                                                              *)
(***************************************************************************)
EXTENDS Integers, Sequences, FiniteSets, TLC

(***************************************************************************)
(* Bounds of the model.                                                    *)
(***************************************************************************)
\* Largest number of type definitions the control plane serves.
MaxCRDs == 3
\* Largest number of calls of BuildControlPlaneKubeconfig by one caller.
MaxBuilds == 2

(***************************************************************************)
(* Program constants.                                                      *)
(***************************************************************************)
\* Limit of every list call (the module-wide page size), scaled down.
defaultPageSize == 2
\* Mode requested by fs.Create (os.Create opens with 0666, before the umask).
ModeCreate == 438
\* Mode set by fs.Chmod(e.options.OutputArchive, 0600).
ModeOwnerRW == 384
\* Number of permission bits of a file mode.
ModeBits == 9

(***************************************************************************)
(* Strings.                                                                *)
(***************************************************************************)
\* strings.HasSuffix(s, suffix)
HasSuffix(s, suffix) ==
    /\ Len(s) >= Len(suffix)
    /\ SubSeq(s, Len(s) - Len(suffix) + 1, Len(s)) = suffix

\* schema.GroupResource.String(): "resource.group", or "resource" alone for
\* the empty group.
GroupResourceString(group, resource) ==
    IF group = "" THEN resource ELSE resource \o "." \o group

(***************************************************************************)
(* Type definitions (CustomResourceDefinition).                            *)
(***************************************************************************)
Version(name, storage, status) ==
    [name |-> name, storage |-> storage, status |-> status]

Definition(name, owners, group, kind, plural, versions) ==
    [name |-> name, owners |-> owners, group |-> group, kind |-> kind,
     plural |-> plural, versions |-> versions]

\* The type definitions a control plane may hold.  owners are the APIVersion
\* fields of the owner references, in order.
Catalog ==
    { Definition("providers.pkg.crossplane.io", <<>>,
                 "pkg.crossplane.io", "Provider", "providers",
                 <<Version("v1beta1", FALSE, FALSE), Version("v1", TRUE, TRUE)>>),
      Definition("buckets.s3.aws.upbound.io", <<"pkg.crossplane.io/v1">>,
                 "s3.aws.upbound.io", "Bucket", "buckets",
                 <<Version("v1beta1", TRUE, TRUE)>>),
      Definition("widgets.example.org", <<"apps/v1", "pkg.crossplane.io/v1beta1">>,
                 "example.org", "Widget", "widgets",
                 <<Version("v1", TRUE, FALSE)>>),
      Definition("composites.example.org", <<"v1", "apiextensions.crossplane.io/v1">>,
                 "example.org", "Composite", "composites",
                 <<Version("v1", TRUE, TRUE)>>),
      Definition("things.xcrossplane.io", <<>>,
                 "xcrossplane.io", "Thing", "things",
                 <<Version("v1", TRUE, FALSE)>>),
      Definition("legacies.crossplane.io", <<>>,
                 "crossplane.io", "Legacy", "legacies",
                 <<Version("v1alpha1", FALSE, FALSE), Version("v1alpha2", FALSE, TRUE)>>),
      Definition("multis.crossplane.io", <<>>,
                 "crossplane.io", "Multi", "multis",
                 <<Version("v1", TRUE, TRUE), Version("v2", TRUE, FALSE)>>),
      Definition("suppliers.pkg.crossplane.io", <<>>,
                 "pkg.crossplane.io", "Provider", "suppliers",
                 <<Version("v1", TRUE, FALSE)>>) }

\* Number of instances the control plane holds of a resource.
CatalogInstances(plural) ==
    CASE plural = "providers"  -> 2
      [] plural = "buckets"    -> 0
      [] plural = "widgets"    -> 1
      [] plural = "composites" -> 2
      [] plural = "legacies"   -> 1
      [] plural = "multis"     -> 1
      [] OTHER                 -> 0

\* Sequences of distinct elements of S, of length at most n.
RECURSIVE DistinctSeqs(_, _)
DistinctSeqs(S, n) ==
    IF n = 0 THEN {<<>>}
    ELSE LET shorter == DistinctSeqs(S, n - 1)
         IN  shorter \cup
             UNION { { Append(q, x) : x \in S \ { q[i] : i \in 1..Len(q) } } :
                     q \in { r \in shorter : Len(r) = n - 1 } }

VARIABLES
    controlPlane,   \* the source control plane: type definitions and instances
    cancelled,      \* ctx has been cancelled
    cancelPc,       \* position of Export when ctx was cancelled ("" if it was not)
    umask,          \* the process's file mode creation mask
    pageLen,        \* number of items the server puts on a page (<= Limit)
    pc,             \* position of Export
    result,         \* what Export returned ("" while running, "ok", or the error)
    staging,        \* the staging directory (tmpDir) and what it holds
    outFile,        \* the file at options.OutputArchive
    continueToken,  \* fetchAllCRDs: continueToken
    crds,           \* fetchAllCRDs: crds
    listCalls,      \* the list calls issued, in order: token sent, whether it failed
    crdList,        \* Export: crdList
    exportList,     \* Export: exportList
    idx,            \* Export: position of the loop over exportList
    gvr,            \* Export: gvr of the type being exported
    resolveCalls,   \* names of the types customResourceGVR was called for, in order
    crCounts,       \* Export: crCounts
    exported,       \* per exported type: its name, key and instances persisted
    summaryWrites,  \* number of times the summary was written
    kubePc,         \* position of the caller of the kubeconfig helpers
    kubeArgs,       \* the proxy URL, id and token the caller started with
    proxy,          \* the caller's url.URL, which it passes by pointer
    builds,         \* the configs BuildControlPlaneKubeconfig returned, in order
    kubeFile,       \* the kubeconfig file at existingFilePath
    kubeOld,        \* the config that file held at the start
    kubeResult      \* what ApplyControlPlaneKubeconfig returned ("" before)

vars == <<controlPlane, cancelled, cancelPc, umask, pageLen, pc, result,
          staging, outFile, continueToken, crds, listCalls, crdList,
          exportList, idx, gvr, resolveCalls, crCounts, exported,
          summaryWrites, kubePc, kubeArgs, proxy, builds, kubeFile, kubeOld,
          kubeResult>>

kubeVars == <<kubePc, kubeArgs, proxy, builds, kubeFile, kubeOld, kubeResult>>

(***************************************************************************)
(* Helpers.                                                                *)
(***************************************************************************)
Min(a, b) == IF a <= b THEN a ELSE b

Range(q) == { q[i] : i \in 1..Len(q) }

\* The map with no key.
EmptyMap == [k \in {} |-> 0]

\* a &^ b on file modes (bit clear), bit by bit.
RECURSIVE AndNot(_, _, _)
AndNot(a, b, bits) ==
    IF bits = 0 THEN 0
    ELSE (IF a % 2 = 1 /\ b % 2 = 0 THEN 1 ELSE 0)
         + 2 * AndNot(a \div 2, b \div 2, bits - 1)

(***************************************************************************)
(* The control plane: the listing of type definitions, served in pages,    *)
(* and the instances of every resource.                                    *)
(***************************************************************************)
ResourceKey(d) == GroupResourceString(d.group, d.plural)

ControlPlaneOf(q) ==
    [crds      |-> q,
     instances |-> [k \in { ResourceKey(d) : d \in Range(q) } |->
                      CatalogInstances(
                          (CHOOSE d \in Range(q) : ResourceKey(d) = k).plural)]]

\* CustomResourceDefinitions().List(ctx, ListOptions{Limit, Continue}): the
\* page that starts at the continuation token (0 is the empty token), and the
\* token of the page after it, empty on the last page.
ListCRDs(cp, limit, token) ==
    LET n    == Min(pageLen, limit)
        last == Min(token + n, Len(cp.crds))
    IN  [items    |-> SubSeq(cp.crds, token + 1, last),
         continue |-> IF last >= Len(cp.crds) THEN 0 ELSE last]

\* dynamicClient.Resource(gvr).List: the instances of a resource, numbered.
ListInstances(cp, key) ==
    IF key \in DOMAIN cp.instances THEN 1..cp.instances[key] ELSE {}

(***************************************************************************)
(* shouldExport                                                            *)
(***************************************************************************)
shouldExport(in) ==
    \/ \E i \in 1..Len(in.owners) : in.owners[i] = "pkg.crossplane.io/v1"
    \/ HasSuffix(in.name, ".crossplane.io")

FilterExportListKeepingAll(list, i) == list

\* The loop of Export over crdList that builds exportList.
RECURSIVE FilterExportList(_, _)
FilterExportList(list, i) ==
    IF i > Len(list) THEN <<>>
    ELSE IF ~shouldExport(list[i]) THEN FilterExportList(list, i + 1)
    ELSE <<list[i]>> \o FilterExportList(list, i + 1)

(***************************************************************************)
(* customResourceGVR                                                       *)
(***************************************************************************)
\* The loop over in.Spec.Versions: the name of the last version flagged as
\* storage, "" when there is none.
RECURSIVE StorageVersion(_, _, _)
StorageVersion(versions, i, version) ==
    IF i > Len(versions) THEN version
    ELSE StorageVersion(versions, i + 1,
                        IF versions[i].storage THEN versions[i].name ELSE version)

NoMapping == [ok |-> FALSE, group |-> "", version |-> "", resource |-> ""]

\* resourceMapper.RESTMapping(GroupKind{group, kind}, version): every outcome
\* the mapper can give.  The mapper serves the first listed definition of a
\* group and kind.  It skips an empty version and then maps to a version of
\* its own choice; a version it does not serve is no match.  Any call can
\* fail.
RESTMapping(cp, group, kind, version) ==
    LET known == { i \in 1..Len(cp.crds) :
                     cp.crds[i].group = group /\ cp.crds[i].kind = kind }
    IN  {NoMapping} \cup
        IF known = {} THEN {}
        ELSE LET d      == cp.crds[CHOOSE i \in known : \A j \in known : i <= j]
                 served == { d.versions[i].name : i \in 1..Len(d.versions) }
             IN  { [ok |-> TRUE, group |-> group, version |-> v,
                    resource |-> d.plural] :
                   v \in IF version = "" THEN served ELSE served \cap {version} }

\* The loop of Export over crd.Spec.Versions that sets sub.
WithStatusSubresource(versions) ==
    \E i \in 1..Len(versions) : versions[i].storage /\ versions[i].status

(***************************************************************************)
(* Kubeconfigs                                                             *)
(***************************************************************************)
NoURL == [scheme |-> "", host |-> "", path |-> ""]

\* api.NewConfig()
NewConfig ==
    [clusters |-> EmptyMap, authInfos |-> EmptyMap, contexts |-> EmptyMap,
     currentContext |-> ""]

(***************************************************************************)
(* The initial state: Export has been called and has done nothing yet.     *)
(***************************************************************************)
NoTree == [types |-> EmptyMap,
           summary |-> [written |-> FALSE, resourceCounts |-> EmptyMap]]

NoFile == [exists |-> FALSE, mode |-> 0, content |-> "none", tree |-> NoTree,
           byRun |-> FALSE]

\* A file left at the output path by an earlier program, mode 0644.
OldFile == [exists |-> TRUE, mode |-> 420, content |-> "old", tree |-> NoTree,
            byRun |-> FALSE]

NoStaging == [state |-> "absent", tree |-> NoTree]

NoGVR == [group |-> "", version |-> "", resource |-> ""]

\* The kubeconfig helpers are not in use.
KubeIdle ==
    /\ kubePc = "off"
    /\ kubeArgs = [proxy |-> NoURL, id |-> "", token |-> ""]
    /\ proxy = NoURL
    /\ builds = <<>>
    /\ kubeFile = [loadable |-> TRUE, config |-> NewConfig]
    /\ kubeOld = NewConfig
    /\ kubeResult = ""

Init ==
    /\ KubeIdle
    /\ controlPlane \in { ControlPlaneOf(q) : q \in DistinctSeqs(Catalog, MaxCRDs) }
    /\ cancelled = FALSE
    /\ cancelPc = ""
    /\ umask \in {18, 63}
    /\ pageLen \in 1..defaultPageSize
    /\ pc = "start"
    /\ result = ""
    /\ staging = NoStaging
    /\ outFile \in {NoFile, OldFile}
    /\ continueToken = 0
    /\ crds = <<>>
    /\ listCalls = <<>>
    /\ crdList = <<>>
    /\ exportList = <<>>
    /\ idx = 0
    /\ gvr = NoGVR
    /\ resolveCalls = <<>>
    /\ crCounts = EmptyMap
    /\ exported = <<>>
    /\ summaryWrites = 0

env  == <<controlPlane, cancelled, cancelPc, umask, pageLen, kubeVars>>
scan == <<continueToken, crds, listCalls, crdList>>
loop == <<exportList, idx, gvr, resolveCalls, crCounts, exported>>

(***************************************************************************)
(* The context                                                             *)
(***************************************************************************)
ContextErrIgnored(c) == FALSE

\* ctx.Err() != nil, as the calls that are given ctx see it: a call given a
\* cancelled context fails.
ContextErr(c) == c

\* The caller cancels ctx while Export runs.
Cancel ==
    /\ pc # "returned"
    /\ ~cancelled
    /\ cancelled' = TRUE
    /\ cancelPc' = pc
    /\ UNCHANGED <<controlPlane, umask, pageLen, pc, result, staging, outFile,
                   scan, loop, summaryWrites, kubeVars>>

(***************************************************************************)
(* Export                                                                  *)
(***************************************************************************)
\* A return of Export after the staging directory was created: the deferred
\* fs.RemoveAll(tmpDir) runs, then the caller has the result.
ReturnWithoutRemoveAll(err) ==
    /\ pc' = "returned"
    /\ result' = err
    /\ UNCHANGED staging

Return(err) ==
    /\ staging' = [state |-> "removed", tree |-> NoTree]
    /\ pc' = "returned"
    /\ result' = err

\* fs.TempDir("", "up"), and the return when it fails.
CreateTempDir ==
    /\ pc = "start"
    /\ \/ /\ pc' = "returned"
          /\ result' = "cannot create temporary directory"
          /\ UNCHANGED staging
       \/ /\ staging' = [staging EXCEPT !.state = "present"]
          /\ pc' = "scan"
          /\ UNCHANGED result
    /\ UNCHANGED <<env, scan, loop, outFile, summaryWrites>>

AppendPageOverwriting(list, items) == items

\* crds = append(crds, l.Items...)
AppendPage(list, items) == list \o items

NextContinueDropped(l) == 0

\* continueToken = l.GetContinue()
NextContinue(l) == l.continue

\* One turn of the loop of fetchAllCRDs: a list call with the continuation
\* token held, then the error return, the next turn, or the return of the
\* whole list to Export.
FetchCRDPageDeleting ==
    /\ pc = "scan"
    /\ listCalls' = Append(listCalls, [continue |-> continueToken, err |-> FALSE])
    /\ LET l == ListCRDs(controlPlane, defaultPageSize, continueToken)
       IN  /\ crds' = AppendPage(crds, l.items)
           /\ continueToken' = 0
           /\ crdList' = crds'
           /\ pc' = "filter"
           /\ controlPlane' = ControlPlaneOf(<<>>)
    /\ UNCHANGED <<cancelled, cancelPc, umask, pageLen, result, staging, loop,
                   outFile, summaryWrites, kubeVars>>

FetchCRDPageTolerant ==
    /\ pc = "scan"
    /\ \/ /\ listCalls' = Append(listCalls, [continue |-> continueToken, err |-> TRUE])
          /\ crdList' = crds
          /\ pc' = "filter"
          /\ UNCHANGED <<continueToken, crds, result, staging>>
       \/ LET l == ListCRDs(controlPlane, defaultPageSize, continueToken)
          IN  /\ ~ContextErr(cancelled)
              /\ listCalls' = Append(listCalls, [continue |-> continueToken, err |-> FALSE])
              /\ crds' = AppendPage(crds, l.items)
              /\ continueToken' = NextContinue(l)
              /\ IF continueToken' = 0
                 THEN crdList' = crds' /\ pc' = "filter"
                 ELSE UNCHANGED crdList /\ pc' = "scan"
              /\ UNCHANGED <<result, staging>>
    /\ UNCHANGED <<env, loop, outFile, summaryWrites>>

FetchCRDPage ==
    /\ pc = "scan"
    /\ \/ /\ listCalls' = Append(listCalls, [continue |-> continueToken, err |-> TRUE])
          /\ crds' = <<>>
          /\ Return("cannot fetch CRDs")
          /\ UNCHANGED <<continueToken, crdList>>
       \/ LET l == ListCRDs(controlPlane, defaultPageSize, continueToken)
          IN  /\ ~ContextErr(cancelled)
              /\ listCalls' = Append(listCalls, [continue |-> continueToken, err |-> FALSE])
              /\ crds' = AppendPage(crds, l.items)
              /\ continueToken' = NextContinue(l)
              /\ IF continueToken' = 0
                 THEN crdList' = crds' /\ pc' = "filter"
                 ELSE UNCHANGED crdList /\ pc' = "scan"
              /\ UNCHANGED <<result, staging>>
    /\ UNCHANGED <<env, loop, outFile, summaryWrites>>

LoopOrSummarizeEarly(i, list) ==
    IF i >= Len(list) THEN "summarize" ELSE "resolve"

\* for _, crd := range exportList: the body runs for the i-th type, and the
\* summary stage follows the last one.
LoopOrSummarize(i, list) ==
    IF i > Len(list) THEN "summarize" ELSE "resolve"

\* The loop over crdList that keeps the types to export, and the entry of the
\* loop over exportList.
FilterTypes ==
    /\ pc = "filter"
    /\ exportList' = FilterExportList(crdList, 1)
    /\ idx' = 1
    /\ pc' = LoopOrSummarize(1, exportList')
    /\ UNCHANGED <<env, scan, gvr, resolveCalls, crCounts, exported, result,
                   staging, outFile, summaryWrites>>

\* customResourceGVR(in): the outcomes of mapping the storage version.
customResourceGVR(cp, in) ==
    RESTMapping(cp, in.group, in.kind, StorageVersion(in.versions, 1, ""))

ResolveGVRSkipping ==
    /\ pc = "resolve"
    /\ resolveCalls' = Append(resolveCalls, exportList[idx].name)
    /\ \E rm \in customResourceGVR(controlPlane, exportList[idx]) :
          IF rm.ok
          THEN /\ gvr' = [group |-> rm.group, version |-> rm.version,
                          resource |-> rm.resource]
               /\ pc' = "export"
               /\ UNCHANGED idx
          ELSE /\ idx' = idx + 1
               /\ pc' = LoopOrSummarize(idx + 1, exportList)
               /\ UNCHANGED gvr
    /\ UNCHANGED <<env, scan, exportList, crCounts, exported, outFile,
                   summaryWrites, result, staging>>

\* gvr, err := e.customResourceGVR(crd), and the return when it fails.
ResolveGVR ==
    /\ pc = "resolve"
    /\ resolveCalls' = Append(resolveCalls, exportList[idx].name)
    /\ \E rm \in customResourceGVR(controlPlane, exportList[idx]) :
          IF rm.ok
          THEN /\ gvr' = [group |-> rm.group, version |-> rm.version,
                          resource |-> rm.resource]
               /\ pc' = "export"
               /\ UNCHANGED <<result, staging>>
          ELSE /\ Return("cannot get GVR")
               /\ UNCHANGED gvr
    /\ UNCHANGED <<env, scan, exportList, idx, crCounts, exported, outFile,
                   summaryWrites>>

RecordCountAccumulating(counts, key, count) ==
    (key :> (IF key \in DOMAIN counts THEN counts[key] ELSE 0) + count) @@ counts

\* crCounts[gvr.GroupResource().String()] = count
RecordCount(counts, key, count) == (key :> count) @@ counts

\* UnstructuredExporter.ExportResources(ctx, gvr) with a persister of the
\* type's descriptor: every outcome.  On success the descriptor and one file
\* per instance listed are under the type's subtree, and the count returned
\* is the number of instances written.
UnstructuredExportResources(cp, tree, key, sub) ==
    LET insts == ListInstances(cp, key)
    IN  { [ok |-> FALSE, count |-> 0, tree |-> tree],
          [ok |-> TRUE, count |-> Cardinality(insts),
           tree |-> [tree EXCEPT !.types =
                       (key :> [withStatusSubresource |-> sub,
                                files |-> insts]) @@ @]] }

\* The rest of the loop body for the type resolved: sub, the exporter, the
\* call of ExportResources, the error return, the count recorded.
ExportType ==
    /\ pc = "export"
    /\ LET crd == exportList[idx]
           key == GroupResourceString(gvr.group, gvr.resource)
           sub == WithStatusSubresource(crd.versions)
       IN  \E r \in UnstructuredExportResources(controlPlane, staging.tree, key, sub) :
             IF r.ok
             THEN /\ ~ContextErr(cancelled)
                  /\ staging' = [staging EXCEPT !.tree = r.tree]
                  /\ crCounts' = RecordCount(crCounts, key, r.count)
                  /\ exported' = Append(exported,
                                        [name |-> crd.name, key |-> key,
                                         version |-> gvr.version,
                                         withStatusSubresource |-> sub,
                                         persisted |-> Cardinality(r.tree.types[key].files)])
                  /\ idx' = idx + 1
                  /\ pc' = LoopOrSummarize(idx + 1, exportList)
                  /\ UNCHANGED result
             ELSE /\ Return("cannot export resources")
                  /\ UNCHANGED <<idx, crCounts, exported>>
    /\ UNCHANGED <<env, scan, exportList, gvr, resolveCalls, outFile,
                   summaryWrites>>

\* PersistentMetadataExporter.ExportMetadata(ctx, opts, crCounts): every
\* outcome.  On success the summary, with the counts given, is in the
\* staging directory.
PersistentExportMetadata(tree, counts) ==
    { [ok |-> FALSE, tree |-> tree],
      [ok |-> TRUE,
       tree |-> [tree EXCEPT !.summary =
                   [written |-> TRUE, resourceCounts |-> counts]]] }

ExportMetadataIgnoringError ==
    /\ pc = "summarize"
    /\ \E r \in PersistentExportMetadata(staging.tree, crCounts) :
          /\ r.ok => ~ContextErr(cancelled)
          /\ staging' = [staging EXCEPT !.tree = r.tree]
          /\ summaryWrites' = summaryWrites + (IF r.ok THEN 1 ELSE 0)
          /\ pc' = "archive"
          /\ UNCHANGED result
    /\ UNCHANGED <<env, scan, loop, outFile>>

\* me.ExportMetadata(ctx, e.options, crCounts), and the return when it fails.
ExportMetadata ==
    /\ pc = "summarize"
    /\ \E r \in PersistentExportMetadata(staging.tree, crCounts) :
          IF r.ok
          THEN /\ ~ContextErr(cancelled)
               /\ staging' = [staging EXCEPT !.tree = r.tree]
               /\ summaryWrites' = summaryWrites + 1
               /\ pc' = "archive"
               /\ UNCHANGED result
          ELSE /\ Return("cannot write export metadata")
               /\ UNCHANGED summaryWrites
    /\ UNCHANGED <<env, scan, loop, outFile>>

(***************************************************************************)
(* archive                                                                 *)
(***************************************************************************)
\* fs.Create(name): a new file gets 0666 less the umask; an existing file is
\* truncated and keeps its mode.
CreateFile(f, mask) ==
    [exists  |-> TRUE,
     mode    |-> IF f.exists THEN f.mode ELSE AndNot(ModeCreate, mask, ModeBits),
     content |-> "empty",
     tree    |-> NoTree,
     byRun   |-> TRUE]

ChmodSkipped(f, mode) == f

\* fs.Chmod(name, mode)
Chmod(f, mode) == [f EXCEPT !.mode = mode]

\* archiver.FilesFromDisk over the staging directory.
ArchiveFiles ==
    /\ pc = "archive"
    /\ \/ Return("cannot archive exported state")
       \/ pc' = "create" /\ UNCHANGED <<result, staging>>
    /\ UNCHANGED <<env, scan, loop, outFile, summaryWrites>>

\* out, err := fs.Create(e.options.OutputArchive)
ArchiveCreate ==
    /\ pc = "create"
    /\ \/ Return("cannot archive exported state") /\ UNCHANGED outFile
       \/ /\ outFile' = CreateFile(outFile, umask)
          /\ pc' = "chmod"
          /\ UNCHANGED <<result, staging>>
    /\ UNCHANGED <<env, scan, loop, summaryWrites>>

\* fs.Chmod(e.options.OutputArchive, 0600)
ArchiveChmod ==
    /\ pc = "chmod"
    /\ \/ Return("cannot archive exported state") /\ UNCHANGED outFile
       \/ /\ outFile' = Chmod(outFile, ModeOwnerRW)
          /\ pc' = "write"
          /\ UNCHANGED <<result, staging>>
    /\ UNCHANGED <<env, scan, loop, summaryWrites>>

\* format.Archive(ctx, out, files): the files are written one after the
\* other, and ctx is looked at before each.  This is the call up to the look
\* at ctx before the last file.
ArchiveWrite ==
    /\ pc = "write"
    /\ \/ /\ outFile' \in { outFile, [outFile EXCEPT !.content = "partial"] }
          /\ Return("cannot archive exported state")
       \/ /\ ~ContextErr(cancelled)
          /\ outFile' = [outFile EXCEPT !.content = "partial"]
          /\ pc' = "copy"
          /\ UNCHANGED <<result, staging>>
    /\ UNCHANGED <<env, scan, loop, summaryWrites>>

\* The last file is copied into the archive; then archive and Export return.
ArchiveCopy ==
    /\ pc = "copy"
    /\ \/ Return("cannot archive exported state") /\ UNCHANGED outFile
       \/ /\ outFile' = [outFile EXCEPT !.content = "complete",
                                         !.tree = staging.tree]
          /\ Return("ok")
    /\ UNCHANGED <<env, scan, loop, summaryWrites>>

Next ==
    \/ CreateTempDir
    \/ FetchCRDPage
    \/ FilterTypes
    \/ ResolveGVR
    \/ ExportType
    \/ ExportMetadata
    \/ ArchiveFiles
    \/ ArchiveCreate
    \/ ArchiveChmod
    \/ ArchiveWrite
    \/ ArchiveCopy
    \/ Cancel

Spec == Init /\ [][Next]_vars

\* fetchAllCRDs alone, as Export calls it: the loop takes its next turn for
\* as long as it has one.
FetchNext ==
    \/ CreateTempDir
    \/ FetchCRDPage
    \/ Cancel

FetchSpec == Init /\ [][FetchNext]_vars /\ WF_vars(FetchCRDPage)

(***************************************************************************)
(* BuildControlPlaneKubeconfig                                             *)
(***************************************************************************)
exportVars == <<controlPlane, cancelled, cancelPc, umask, pageLen, pc, result,
                staging, outFile, scan, loop, summaryWrites>>

\* strings.ReplaceAll(s, old, new) for a one-character old, from position i.
RECURSIVE ReplaceAll(_, _, _, _)
ReplaceAll(s, i, old, new) ==
    IF i > Len(s) THEN ""
    ELSE (IF SubSeq(s, i, i) = old THEN new ELSE SubSeq(s, i, i))
         \o ReplaceAll(s, i + 1, old, new)

\* The loop of path.Join: the elements, joined by "/", the empty ones before
\* the first non-empty one left out.
RECURSIVE JoinElements(_, _, _)
JoinElements(elem, i, buf) ==
    IF i > Len(elem) THEN buf
    ELSE JoinElements(elem, i + 1,
                      IF Len(buf) > 0 THEN buf \o "/" \o elem[i] ELSE elem[i])

\* path.Clean of a path with no "." and no ".." element: runs of slashes
\* become one slash.
RECURSIVE SingleSlashes(_, _, _)
SingleSlashes(s, i, out) ==
    IF i > Len(s) THEN out
    ELSE IF /\ SubSeq(s, i, i) = "/"
            /\ Len(out) > 0
            /\ SubSeq(out, Len(out), Len(out)) = "/"
         THEN SingleSlashes(s, i + 1, out)
         ELSE SingleSlashes(s, i + 1, out \o SubSeq(s, i, i))

\* path.Clean: also, a slash at the end goes unless the path is the root,
\* and the empty path becomes ".".
Clean(s) ==
    LET t == SingleSlashes(s, 1, "")
    IN  IF Len(t) = 0 THEN "."
        ELSE IF Len(t) > 1 /\ SubSeq(t, Len(t), Len(t)) = "/"
             THEN SubSeq(t, 1, Len(t) - 1)
             ELSE t

\* path.Join(elem...)
PathJoin(elem) ==
    LET buf == JoinElements(elem, 1, "")
    IN  IF Len(buf) = 0 THEN "" ELSE Clean(buf)

\* url.URL.String() of a URL with a scheme, a host and a path: a path that
\* does not start with a slash gets one after the host.
URLString(u) ==
    u.scheme \o "://" \o u.host
    \o (IF Len(u.path) > 0 /\ SubSeq(u.path, 1, 1) # "/" THEN "/" ELSE "")
    \o u.path

\* fmt.Sprintf(UpboundKubeconfigKeyFmt, strings.ReplaceAll(id, "/", "-"))
KubeconfigKey(id) == "upbound-" \o ReplaceAll(id, 1, "/", "-")

\* BuildControlPlaneKubeconfig(proxy, id, token): the config returned, and
\* the URL that proxy points to as the call leaves it.
BuildControlPlaneKubeconfig(u, id, token) ==
    LET key    == KubeconfigKey(id)
        joined == [u EXCEPT !.path = PathJoin(<<u.path, id, "k8s">>)]
    IN  [proxy |-> joined,
         conf  |-> [clusters       |-> (key :> [server |-> URLString(joined)]),
                    authInfos      |-> (key :> [token |-> token]),
                    contexts       |-> (key :> [cluster |-> key, authInfo |-> key]),
                    currentContext |-> key]]

\* The caller builds the kubeconfig of its control plane, with the URL, id
\* and token it holds.
Build ==
    /\ kubePc = "run"
    /\ Len(builds) < MaxBuilds
    /\ LET r == BuildControlPlaneKubeconfig(proxy, kubeArgs.id, kubeArgs.token)
       IN  /\ builds' = Append(builds, r.conf)
           /\ proxy' = r.proxy
    /\ UNCHANGED <<kubePc, kubeArgs, kubeFile, kubeOld, kubeResult, exportVars>>

(***************************************************************************)
(* ApplyControlPlaneKubeconfig                                             *)
(***************************************************************************)
MergeConfigReplacing(conf, mcpConf) == mcpConf

\* The three loops over mcpConf and the assignment of CurrentContext.
MergeConfig(conf, mcpConf) ==
    [clusters       |-> mcpConf.clusters @@ conf.clusters,
     authInfos      |-> mcpConf.authInfos @@ conf.authInfos,
     contexts       |-> mcpConf.contexts @@ conf.contexts,
     currentContext |-> mcpConf.currentContext]

\* clientcmd.ModifyConfig(po, conf, true): the configs the file can hold when
\* the call fails.  It writes the current context, then the clusters, then
\* the contexts, then the credentials that differ from the file's, and a
\* write can fail.
PartlyModified(old, new) ==
    LET s1 == [old EXCEPT !.currentContext = new.currentContext]
        s2 == [s1 EXCEPT !.clusters = new.clusters @@ @]
        s3 == [s2 EXCEPT !.contexts = new.contexts @@ @]
    IN  {old, s1, s2, s3}

\* ApplyControlPlaneKubeconfig(mcpConf, existingFilePath), with the config
\* built last.
Apply ==
    /\ kubePc = "run"
    /\ Len(builds) >= 1
    /\ kubePc' = "done"
    /\ IF ~kubeFile.loadable
       THEN /\ kubeResult' = "cannot load"
            /\ UNCHANGED kubeFile
       ELSE LET conf == MergeConfig(kubeFile.config, builds[Len(builds)])
            IN  \/ /\ kubeFile' = [kubeFile EXCEPT !.config = conf]
                   /\ kubeResult' = "ok"
                \/ /\ kubeFile' \in { [kubeFile EXCEPT !.config = c] :
                                         c \in PartlyModified(kubeFile.config, conf) }
                   /\ kubeResult' = "cannot modify"
    /\ UNCHANGED <<kubeArgs, proxy, builds, kubeOld, exportVars>>

\* Export is not running.
ExportIdle ==
    /\ controlPlane = ControlPlaneOf(<<>>)
    /\ cancelled = FALSE
    /\ cancelPc = ""
    /\ umask = 18
    /\ pageLen = 1
    /\ pc = "off"
    /\ result = ""
    /\ staging = NoStaging
    /\ outFile = NoFile
    /\ continueToken = 0
    /\ crds = <<>>
    /\ listCalls = <<>>
    /\ crdList = <<>>
    /\ exportList = <<>>
    /\ idx = 0
    /\ gvr = NoGVR
    /\ resolveCalls = <<>>
    /\ crCounts = EmptyMap
    /\ exported = <<>>
    /\ summaryWrites = 0

\* The proxy URLs, ids and tokens a caller may hold.
ProxyURLs ==
    { [scheme |-> "https", host |-> "proxy.upbound.io", path |-> p] :
      p \in {"", "/", "/v1/controlPlanes", "/v1/controlPlanes/"} }

Ids == {"cp1", "acme/cp1"}

Tokens == {"token-a"}

\* The kubeconfigs the file may hold: entries of an earlier date under some
\* of these keys, and one of them, or none, as the current context.
ExistingKeys == {"minikube", "upbound-cp1", "upbound-acme-cp1"}

ExistingConfigs ==
    { [clusters       |-> [k \in K |-> [server |-> "https://old.example.org"]],
       authInfos      |-> [k \in K |-> [token |-> "token-old"]],
       contexts       |-> [k \in K |-> [cluster |-> k, authInfo |-> k]],
       currentContext |-> cur] :
      K \in SUBSET ExistingKeys, cur \in {"", "minikube", "upbound-cp1"} }

KubeInit ==
    /\ ExportIdle
    /\ kubePc = "run"
    /\ kubeArgs \in [proxy : ProxyURLs, id : Ids, token : Tokens]
    /\ proxy = kubeArgs.proxy
    /\ builds = <<>>
    /\ kubeFile \in [loadable : BOOLEAN, config : ExistingConfigs]
    /\ kubeOld = kubeFile.config
    /\ kubeResult = ""

KubeNext ==
    \/ Build
    \/ Apply

KubeSpec == KubeInit /\ [][KubeNext]_vars

(***************************************************************************)
(* Properties.                                                             *)
(***************************************************************************)
Returned == pc = "returned"

Succeeded == pc = "returned" /\ result = "ok"

Failed == pc = "returned" /\ result # "ok"

\* No permission bit of the group or of others is set.
OwnerOnly(mode) == mode % 64 = 0

\* C1: once Export has returned, by success or by a failure of discovery,
\* resolution, instance export, summary writing or archiving, the staging
\* directory created at the start of the run does not exist.
C1_StagingRemovedOnReturn ==
    Returned => staging.state # "present"

C1_Witness ==
    /\ Returned
    /\ result = "cannot export resources"
    /\ staging.state = "removed"
    /\ Len(exported) >= 1

\* C2: Export leaves exactly one complete archive at OutputArchive when it
\* returns success, and no file written by the run, partial or complete,
\* when it returns an error.
C2_ArchiveIffSuccess ==
    /\ Succeeded => outFile.exists /\ outFile.byRun /\ outFile.content = "complete"
    /\ Failed => ~(outFile.exists /\ outFile.byRun)

\* The API group of an owner reference's APIVersion: what precedes the "/",
\* the empty (core) group when there is none.
RECURSIVE SlashAt(_, _)
SlashAt(s, i) ==
    IF i > Len(s) THEN 0
    ELSE IF SubSeq(s, i, i) = "/" THEN i
    ELSE SlashAt(s, i + 1)

APIGroup(apiVersion) ==
    LET i == SlashAt(apiVersion, 1)
    IN  IF i = 0 THEN "" ELSE SubSeq(apiVersion, 1, i - 1)

InScope(d) ==
    \/ \E i \in 1..Len(d.owners) : APIGroup(d.owners[i]) = "pkg.crossplane.io"
    \/ HasSuffix(d.name, ".crossplane.io")

Filtered == pc \notin {"start", "scan", "filter"} /\ result # "cannot fetch CRDs"

\* C3: the Type Filter keeps a type definition if and only if it has an owner
\* reference of the package-management group pkg.crossplane.io, of whatever
\* version, or its name ends with ".crossplane.io".
C3_FilterByGroupOrSuffix ==
    Filtered =>
        \A i \in 1..Len(crdList) :
            (crdList[i] \in Range(exportList)) <=> InScope(crdList[i])

NoStorageVersion(d) == \A i \in 1..Len(d.versions) : ~d.versions[i].storage

\* C4: an in-scope type definition with no version flagged as storage is
\* never resolved to a coordinate: the loop does not get past it, and the run
\* does not succeed.
C4_NoStorageVersionAborts ==
    \A i \in 1..Len(exportList) :
        NoStorageVersion(exportList[i]) =>
            /\ ~(pc = "export" /\ idx = i)
            /\ idx <= i
            /\ ~Succeeded

\* The pages the server serves from a continuation token on, up to the page
\* with the empty token.
RECURSIVE ServedPages(_, _)
ServedPages(cp, token) ==
    LET l == ListCRDs(cp, defaultPageSize, token)
    IN  IF l.continue = 0 THEN <<l.items>>
        ELSE <<l.items>> \o ServedPages(cp, l.continue)

RECURSIVE Concat(_)
Concat(pages) ==
    IF pages = <<>> THEN <<>> ELSE Head(pages) \o Concat(Tail(pages))

RECURSIVE TotalLen(_)
TotalLen(pages) ==
    IF pages = <<>> THEN 0 ELSE Len(Head(pages)) + TotalLen(Tail(pages))

FetchReturned ==
    /\ pc \notin {"start", "scan"}
    /\ result \notin {"cannot create temporary directory", "cannot fetch CRDs"}

\* C5: when the listing is served as pages chained by continuation tokens and
\* ended by the empty token, fetchAllCRDs returns the concatenation of the
\* pages in the order served: as many items as the pages hold, none dropped,
\* none twice.
C5_FetchAllIsConcatenation ==
    FetchReturned =>
        LET pages == ServedPages(controlPlane, 0)
        IN  /\ crdList = Concat(pages)
            /\ Len(crdList) = TotalLen(pages)
            /\ Len(listCalls) = Len(pages)
            /\ \A d \in Range(controlPlane.crds) :
                  Cardinality({ i \in 1..Len(crdList) : crdList[i] = d }) = 1

C5_Witness ==
    /\ FetchReturned
    /\ Len(ServedPages(controlPlane, 0)) = 3
    /\ Len(crdList) = 3

\* C6: after a successful run, the count recorded in the summary for every
\* exported type is the number of instances persisted for that type, which
\* is the number of instance files of its subtree in the archive.
C6_CountsMatchPersisted ==
    Succeeded =>
        \A i \in 1..Len(exported) :
            LET e      == exported[i]
                counts == outFile.tree.summary.resourceCounts
            IN  /\ e.key \in DOMAIN counts
                /\ counts[e.key] = e.persisted
                /\ counts[e.key] = Cardinality(outFile.tree.types[e.key].files)

C6_Witness ==
    /\ Succeeded
    /\ Len(exported) = 3
    /\ \E i, j \in 1..Len(exported) :
          exported[i].persisted = 2 /\ exported[j].persisted = 0

\* C7: after a successful run the file at OutputArchive has mode 0600: read
\* and write for the owner, no bit for the group or for others.
C7_ArchiveOwnerOnly ==
    Succeeded =>
        outFile.exists /\ outFile.mode = ModeOwnerRW /\ OwnerOnly(outFile.mode)

C7_Witness ==
    Succeeded /\ outFile.exists /\ outFile.mode = ModeOwnerRW /\ umask = 18

\* C8: no step of Export, in a successful or a failed run, changes the type
\* definitions or the instances of the control plane.
C8_ControlPlaneUnchanged ==
    [][controlPlane' = controlPlane]_vars

C8_Witness ==
    /\ Succeeded
    /\ Len(listCalls) >= 2
    /\ Len(exported) >= 2
    /\ summaryWrites = 1

\* C9: whenever the file at OutputArchive exists because of the current run,
\* no permission bit of the group or of others is set on it.
C9_CreatedFileOwnerOnly ==
    outFile.exists /\ outFile.byRun => OwnerOnly(outFile.mode)

\* The summary stage has been entered: the loop over exportList is over.
SummaryStarted ==
    \/ pc \in {"summarize", "archive", "create", "chmod", "write", "copy"}
    \/ /\ pc = "returned"
       /\ result \in {"cannot write export metadata",
                       "cannot archive exported state", "ok"}

AllExported ==
    /\ Len(exported) = Len(exportList)
    /\ \A i \in 1..Len(exportList) : exported[i].name = exportList[i].name

\* C10: the summary is written at most once, the summary stage is entered
\* only when every in-scope type has been exported, and from then on no
\* instance is fetched or persisted.
C10_SummaryOnceAfterAllTypes ==
    [][ /\ summaryWrites' <= 1
        /\ SummaryStarted' => AllExported'
        /\ summaryWrites' > summaryWrites => AllExported /\ pc = "summarize"
        /\ SummaryStarted => /\ SummaryStarted'
                             /\ exported' = exported
                             /\ pc' # "export" ]_vars

C10_Witness ==
    /\ summaryWrites = 1
    /\ Len(exported) = 3
    /\ pc = "archive"

ArchiveEntered == pc \in {"archive", "create", "chmod", "write", "copy"}

\* C11: the archive stage is entered, and the output file created, only
\* after the summary has been written; when writing the summary fails the
\* archive stage is not entered and no file is created at OutputArchive.
C11_ArchiveOnlyAfterSummary ==
    /\ ArchiveEntered => summaryWrites = 1 /\ staging.tree.summary.written
    /\ outFile.byRun => summaryWrites = 1
    /\ result = "cannot write export metadata" =>
          /\ Returned
          /\ summaryWrites = 0
          /\ outFile \in {NoFile, OldFile}

C11_Witness ==
    /\ result = "cannot write export metadata"
    /\ Len(exported) >= 2
    /\ outFile = NoFile

Names(list) == [i \in 1..Len(list) |-> list[i].name]

LoopFailed ==
    Returned /\ result \in {"cannot get GVR", "cannot export resources"}

\* C12: when resolution or instance export fails for the i-th in-scope type,
\* Export returns at once: the types before it are the only ones exported,
\* no later type is resolved, no summary is written, no file is created at
\* OutputArchive; and no type is resolved before the one before it has been
\* exported, so a failing type is never skipped.
C12_FailingTypeAbortsRun ==
    /\ Len(resolveCalls) - Len(exported) \in {0, 1}
    /\ resolveCalls = SubSeq(Names(exportList), 1, Len(resolveCalls))
    /\ LoopFailed =>
          /\ idx \in 1..Len(exportList)
          /\ Len(resolveCalls) = idx
          /\ Len(exported) = idx - 1
          /\ summaryWrites = 0
          /\ outFile \in {NoFile, OldFile}
    /\ Succeeded => Len(exported) = Len(exportList)

C12_Witness ==
    /\ LoopFailed
    /\ idx = 2
    /\ Len(exportList) = 3

ListFailed == \E k \in 1..Len(listCalls) : listCalls[k].err

\* C13: when a list call for a page of type definitions fails, it is the
\* last call; fetchAllCRDs returns the error and no list, and Export returns
\* it with no type filtered, resolved or exported, no summary written and no
\* file created at OutputArchive.
C13_ListErrorAbortsBeforeExport ==
    ListFailed =>
        /\ listCalls[Len(listCalls)].err
        /\ Returned
        /\ result = "cannot fetch CRDs"
        /\ crds = <<>>
        /\ crdList = <<>>
        /\ exportList = <<>>
        /\ resolveCalls = <<>>
        /\ exported = <<>>
        /\ summaryWrites = 0
        /\ outFile \in {NoFile, OldFile}

C13_Witness ==
    /\ ListFailed
    /\ Len(listCalls) = 3
    /\ ~cancelled

\* Sequence a is the start of sequence b.
IsPrefix(a, b) ==
    /\ Len(a) <= Len(b)
    /\ \A i \in 1..Len(a) : a[i] = b[i]

\* C14: the types are resolved and exported one at a time, in the order of
\* discovery, each after the one before it was exported; a successful run
\* has resolved and exported every type the Type Filter keeps exactly once,
\* and no type the Type Filter rejects is ever resolved or exported.
C14_InScopeTypesOnceInOrder ==
    LET kept == Names(SelectSeq(controlPlane.crds, shouldExport))
    IN  /\ IsPrefix(resolveCalls, kept)
        /\ IsPrefix(Names(exported), resolveCalls)
        /\ Len(resolveCalls) - Len(exported) \in {0, 1}
        /\ Succeeded => Names(exported) = kept /\ resolveCalls = kept

C14_Witness ==
    /\ Succeeded
    /\ Len(exported) = 2
    /\ Len(controlPlane.crds) = 3

\* The response to the k-th list call.
Response(k) == ListCRDs(controlPlane, defaultPageSize, listCalls[k].continue)

\* fetchAllCRDs was called and has returned.
ScanOver ==
    pc \notin {"start", "scan"} /\ result # "cannot create temporary directory"

\* C15: the first list call carries the empty token and every later one the
\* token of the response before it, which is not empty; the loop ends only
\* on a response with the empty token or on an error; and the loop ends.
C15_TokensThreadedAndLoopEnds ==
    /\ [](\A k \in 1..Len(listCalls) :
            /\ k = 1 => listCalls[k].continue = 0
            /\ k > 1 => /\ ~listCalls[k - 1].err
                        /\ Response(k - 1).continue # 0
                        /\ listCalls[k].continue = Response(k - 1).continue)
    /\ [](ScanOver =>
            /\ Len(listCalls) >= 1
            /\ \/ listCalls[Len(listCalls)].err
               \/ Response(Len(listCalls)).continue = 0)
    /\ (pc = "scan") ~> ScanOver

C15_Witness ==
    /\ pc = "filter"
    /\ Len(listCalls) = 3
    /\ listCalls[3].continue = 2

\* Whether the version of the given name declares a status subresource.
DeclaresStatus(d, version) ==
    \E i \in 1..Len(d.versions) :
        d.versions[i].name = version /\ d.versions[i].status

\* C16: the hasStatusSubresource flag written for a type is true if and only
\* if the version its coordinate was resolved to declares a status
\* subresource, whatever number of its versions are flagged as storage.
C16_StatusFlagOfResolvedVersion ==
    \A i \in 1..Len(exported) :
        exported[i].withStatusSubresource
            <=> DeclaresStatus(exportList[i], exported[i].version)

\* The positions of Export whose next call is given ctx.
ContextCalls == {"scan", "export", "summarize", "write"}

\* C17, as stated: a run in which ctx is cancelled at any point before the
\* archive write has completed returns an error, with the staging directory
\* removed.
C17_CancelledRunFails ==
    Returned /\ cancelPc # "" => Failed /\ staging.state # "present"

\* C17, amended: once ctx is cancelled, the next call given ctx fails and
\* Export returns its error at once; a run in which ctx is cancelled before
\* the archive write has looked at it for the last time returns an error,
\* with the staging directory removed.
C17_CancelFailsNextContextCall ==
    [][ /\ cancelled /\ pc \in ContextCalls =>
              pc' = "returned" /\ result' # "ok" /\ staging'.state = "removed"
        /\ Returned' /\ cancelPc' \notin {"", "copy"} =>
              result' # "ok" /\ staging'.state # "present" ]_vars

C17_Witness ==
    /\ Returned
    /\ cancelPc = "resolve"
    /\ result = "cannot export resources"
    /\ staging.state = "removed"

RECURSIVE SumOver(_, _)
SumOver(f, S) ==
    IF S = {} THEN 0
    ELSE LET k == CHOOSE x \in S : TRUE
         IN  f[k] + SumOver(f, S \ {k})

\* C18: after a successful run resourceCounts has one entry per in-scope
\* type, also for a type without instances; distinct types have distinct
\* keys, and the counts add up to the number of instances persisted.
C18_OneCountPerType ==
    Succeeded =>
        LET counts == outFile.tree.summary.resourceCounts
        IN  /\ Cardinality(DOMAIN counts) = Len(exportList)
            /\ \A i, j \in 1..Len(exported) :
                  i # j => exported[i].key # exported[j].key
            /\ \A i \in 1..Len(exported) : exported[i].key \in DOMAIN counts
            /\ SumOver(counts, DOMAIN counts)
                  = SumOver([i \in 1..Len(exported) |-> exported[i].persisted],
                            1..Len(exported))

\* The entries of map now that are not those of map old, among the keys
\* outside keys.
SameOutside(old, now, keys) ==
    /\ DOMAIN now \subseteq DOMAIN old \cup keys
    /\ \A k \in DOMAIN old \ keys : k \in DOMAIN now /\ now[k] = old[k]

\* The entries of map mcp are in map now.
AllIn(mcp, now) ==
    \A k \in DOMAIN mcp : k \in DOMAIN now /\ now[k] = mcp[k]

\* C19: ApplyControlPlaneKubeconfig leaves every cluster, credential and
\* context of the file whose key is not in the control-plane config as it
\* was, and adds no key of its own; after a successful call every entry of
\* the control-plane config is in the file under its key and the current
\* context is the control-plane config's; when the file cannot be loaded it
\* is not written.
C19_ApplyMergesByKey ==
    kubePc = "done" =>
        LET mcp == builds[Len(builds)]
            now == kubeFile.config
        IN  /\ SameOutside(kubeOld.clusters, now.clusters, DOMAIN mcp.clusters)
            /\ SameOutside(kubeOld.authInfos, now.authInfos, DOMAIN mcp.authInfos)
            /\ SameOutside(kubeOld.contexts, now.contexts, DOMAIN mcp.contexts)
            /\ kubeResult = "ok" =>
                  /\ AllIn(mcp.clusters, now.clusters)
                  /\ AllIn(mcp.authInfos, now.authInfos)
                  /\ AllIn(mcp.contexts, now.contexts)
                  /\ now.currentContext = mcp.currentContext
            /\ kubeResult = "cannot load" => now = kubeOld
            /\ ~kubeFile.loadable => kubeResult = "cannot load"

C19_Witness ==
    /\ kubePc = "done"
    /\ kubeResult = "ok"
    /\ DOMAIN kubeOld.clusters = {"minikube", "upbound-cp1"}
    /\ DOMAIN kubeFile.config.clusters = {"minikube", "upbound-cp1"}
    /\ kubeOld.currentContext = "minikube"
    /\ kubeFile.config.clusters["upbound-cp1"] # kubeOld.clusters["upbound-cp1"]

\* C20: every call of BuildControlPlaneKubeconfig returns a config with one
\* cluster, one credential and one context, all under the key "upbound-" and
\* the id with "-" for "/"; the context names that cluster and credential
\* and is the current context; and every call with the caller's proxy URL,
\* id and token gives the same server URL, the proxy path joined once with
\* the id and "k8s".
C20_BuildIsAFunctionOfItsArguments ==
    \A i \in 1..Len(builds) :
        LET conf == builds[i]
            key  == IF kubeArgs.id = "cp1" THEN "upbound-cp1" ELSE "upbound-acme-cp1"
            once == [kubeArgs.proxy EXCEPT
                       !.path = PathJoin(<<kubeArgs.proxy.path, kubeArgs.id, "k8s">>)]
        IN  /\ DOMAIN conf.clusters = {key}
            /\ DOMAIN conf.authInfos = {key}
            /\ DOMAIN conf.contexts = {key}
            /\ conf.contexts[key] = [cluster |-> key, authInfo |-> key]
            /\ conf.authInfos[key].token = kubeArgs.token
            /\ conf.currentContext = key
            /\ conf.clusters[key].server = URLString(once)
            /\ conf.clusters[key].server = builds[1].clusters[key].server

====
